---- MODULE Spec2Model ----
(***************************************************************************)
(* Model of the ExpenseTracker server of src/main.py: one SQLite table     *)
(* `expenses`, the schema initializer init_db run at every process start,  *)
(* the five tools (add/list/summarize/delete/update), the statistics       *)
(* resource with its three separate read statements, and the               *)
(* monthly_report prompt.                                                   *)
(*                                                                         *)
(* Text values that are only compared for equality (category,              *)
(* subcategory, note) are TLA+ strings.  A date is compared by SQLite's    *)
(* BINARY collation (memcmp), so a date is the sequence of its character   *)
(* codes: "1" is <<49>>, "10" is <<49, 48>>, "2" is <<50>>.  An optional   *)
(* argument is <<>> when it is Python's None and <<v>> when it is v.       *)
(* Amounts are integers.                                                    *)
(***************************************************************************)
EXTENDS Integers, Sequences, FiniteSets, TLC

VARIABLES
    expenses,      \* the rows of table expenses: a set of records
    seq,           \* sqlite_sequence.seq of the table (AUTOINCREMENT)
    last,          \* the most recent operation: its arguments and its result
    clock,         \* number of operations completed so far
    issued,        \* ids returned by add_expense so far
    deleteCalled,  \* issued ids delete_expense has since been called with
    statPc,        \* get_statistics: which read statement comes next
    stat           \* get_statistics: the values read so far / returned

vars == <<expenses, seq, last, clock, issued, deleteCalled, statPc, stat>>

----------------------------------------------------------------------------
(* Bounds and input sets *)

MaxOps == 3

\* "10", "2": lexicographic order differs from numeric order
Dates == {<<49, 48>>, <<50>>}
Amounts == {0, 5}
Categories == {"Food", "test"}
Subcategories == {"", "s"}
Notes == {"", "n"}

Unset == <<>>
Opt(S) == {Unset} \cup {<<v>> : v \in S}

----------------------------------------------------------------------------
(* SQLite text comparison (BINARY collation) *)

RECURSIVE LexLess(_, _)
LexLess(a, b) ==
    IF b = <<>> THEN FALSE
    ELSE IF a = <<>> THEN TRUE
    ELSE IF Head(a) # Head(b) THEN Head(a) < Head(b)
    ELSE LexLess(Tail(a), Tail(b))

LexLeq(a, b) == a = b \/ LexLess(a, b)

\* x BETWEEN lo AND hi
Between(x, lo, hi) == LexLeq(lo, x) /\ LexLeq(x, hi)

MaxOf(S) == CHOOSE x \in S : \A y \in S : y <= x

Ids(tbl) == {r.id : r \in tbl}

RECURSIVE SumAmount(_)
SumAmount(rows) ==
    IF rows = {} THEN 0
    ELSE LET r == CHOOSE r \in rows : TRUE
         IN r.amount + SumAmount(rows \ {r})

----------------------------------------------------------------------------
(* Schema initializer *)

\* variant: a plain INTEGER PRIMARY KEY, one more than the largest rowid now
\* in the table
NextRowidReuse(tbl, s) == IF tbl = {} THEN 1 ELSE MaxOf(Ids(tbl)) + 1

\* id INTEGER PRIMARY KEY AUTOINCREMENT: one more than the largest rowid the
\* table has ever held (sqlite_sequence.seq)
NextRowid(tbl, s) == MaxOf({s} \cup Ids(tbl)) + 1

\* '2000-01-01'
SentinelDate == <<50, 48, 48, 48, 45, 48, 49, 45, 48, 49>>

Sentinel(id) ==
    [id |-> id, date |-> SentinelDate, amount |-> 0, category |-> "test",
     subcategory |-> "", note |-> ""]

\* INSERT OR IGNORE the sentinel, then DELETE ... WHERE category = 'test'
InitDbRows(tbl, s) ==
    {r \in tbl \cup {Sentinel(NextRowid(tbl, s))} : r.category # "test"}

NoResult ==
    [op |-> "none", id |-> 0, date |-> Unset, amount |-> Unset,
     category |-> Unset, subcategory |-> Unset, note |-> Unset,
     start |-> Unset, end |-> Unset, month |-> Unset, year |-> Unset,
     status |-> "", message |-> "", rows |-> <<>>]

NoStat ==
    [total_expenses |-> 0, total_amount |-> 0, first_expense |-> Unset,
     last_expense |-> Unset, by_category |-> <<>>]

\* the state after the first start on a fresh database file
Init ==
    /\ expenses = InitDbRows({}, 0)
    /\ seq = NextRowid({}, 0)
    /\ last = [NoResult EXCEPT !.op = "init_db"]
    /\ clock = 0
    /\ issued = {}
    /\ deleteCalled = {}
    /\ statPc = "idle"
    /\ stat = NoStat

\* a later process start on the same database file
Startup ==
    /\ clock < MaxOps
    /\ expenses' = InitDbRows(expenses, seq)
    /\ seq' = NextRowid(expenses, seq)
    /\ last' = [NoResult EXCEPT !.op = "init_db"]
    /\ clock' = clock + 1
    /\ UNCHANGED <<issued, deleteCalled, statPc, stat>>

----------------------------------------------------------------------------
(* add_expense *)

AddExpense(date, amount, category, subcategory, note) ==
    /\ clock < MaxOps
    /\ LET id == NextRowid(expenses, seq)
       IN /\ expenses' = expenses \cup
                {[id |-> id, date |-> date, amount |-> amount,
                  category |-> category, subcategory |-> subcategory,
                  note |-> note]}
          /\ seq' = id
          /\ issued' = issued \cup {id}
          /\ last' = [NoResult EXCEPT
                        !.op = "add_expense", !.id = id, !.date = <<date>>,
                        !.amount = <<amount>>, !.category = <<category>>,
                        !.subcategory = <<subcategory>>, !.note = <<note>>,
                        !.status = "success",
                        !.message = "Expense added successfully"]
    /\ clock' = clock + 1
    /\ UNCHANGED <<deleteCalled, statPc, stat>>

----------------------------------------------------------------------------
(* delete_expense *)

\* DELETE FROM expenses WHERE id = ?
DeleteRows(tbl, id) == {r \in tbl : r.id # id}

DeleteExpense(id) ==
    /\ clock < MaxOps
    /\ expenses' = DeleteRows(expenses, id)
    /\ deleteCalled' = deleteCalled \cup ({id} \cap issued)
    /\ last' = IF Cardinality(expenses) - Cardinality(DeleteRows(expenses, id)) > 0
               THEN [NoResult EXCEPT !.op = "delete_expense", !.id = id,
                        !.status = "success", !.message = "deleted"]
               ELSE [NoResult EXCEPT !.op = "delete_expense", !.id = id,
                        !.status = "error", !.message = "not found"]
    /\ clock' = clock + 1
    /\ UNCHANGED <<seq, issued, statPc, stat>>

----------------------------------------------------------------------------
(* update_expense *)

\* variant: arguments tested for truthiness, "if amount:"
SetClauseTruthy(date, amount, category, subcategory, note) ==
    (IF date # Unset THEN {"date"} ELSE {})
    \cup (IF amount # Unset /\ amount # <<0>> THEN {"amount"} ELSE {})
    \cup (IF category # Unset /\ category # <<"">> THEN {"category"} ELSE {})
    \cup (IF subcategory # Unset /\ subcategory # <<"">> THEN {"subcategory"} ELSE {})
    \cup (IF note # Unset /\ note # <<"">> THEN {"note"} ELSE {})

\* the SET clause: one "col = ?" per argument that is not None
SetClause(date, amount, category, subcategory, note) ==
    (IF date # Unset THEN {"date"} ELSE {})
    \cup (IF amount # Unset THEN {"amount"} ELSE {})
    \cup (IF category # Unset THEN {"category"} ELSE {})
    \cup (IF subcategory # Unset THEN {"subcategory"} ELSE {})
    \cup (IF note # Unset THEN {"note"} ELSE {})

\* UPDATE expenses SET <updates> WHERE id = ?
UpdateRows(tbl, id, updates, date, amount, category, subcategory, note) ==
    {IF r.id # id THEN r
     ELSE [id |-> r.id,
           date |-> IF "date" \in updates THEN date[1] ELSE r.date,
           amount |-> IF "amount" \in updates THEN amount[1] ELSE r.amount,
           category |-> IF "category" \in updates THEN category[1] ELSE r.category,
           subcategory |-> IF "subcategory" \in updates THEN subcategory[1] ELSE r.subcategory,
           note |-> IF "note" \in updates THEN note[1] ELSE r.note]
     : r \in tbl}

\* variant: a test "rowcount >= 0" in place of "rowcount > 0"
UpdateRowcountOffByOne(tbl, id) == Cardinality({r \in tbl : r.id = id}) + 1

\* cur.rowcount of the UPDATE: the rows the WHERE clause matched
UpdateRowcount(tbl, id) == Cardinality({r \in tbl : r.id = id})

UpdateExpense(id, date, amount, category, subcategory, note) ==
    /\ clock < MaxOps
    /\ LET updates == SetClause(date, amount, category, subcategory, note)
           call == [NoResult EXCEPT
                      !.op = "update_expense", !.id = id, !.date = date,
                      !.amount = amount, !.category = category,
                      !.subcategory = subcategory, !.note = note]
       IN IF updates = {}
          THEN /\ expenses' = expenses
               /\ last' = [call EXCEPT !.status = "error",
                                       !.message = "No fields to update"]
          ELSE /\ expenses' = UpdateRows(expenses, id, updates, date, amount,
                                         category, subcategory, note)
               /\ last' = IF UpdateRowcount(expenses, id) > 0
                          THEN [call EXCEPT !.status = "success",
                                            !.message = "updated"]
                          ELSE [call EXCEPT !.status = "error",
                                            !.message = "not found"]
    /\ clock' = clock + 1
    /\ UNCHANGED <<seq, issued, deleteCalled, statPc, stat>>

----------------------------------------------------------------------------
(* list_expenses *)

\* variant: ORDER BY date ASC, id DESC
ListBeforeAscending(r, o) ==
    LexLess(r.date, o.date) \/ (r.date = o.date /\ r.id > o.id)

\* ORDER BY date DESC, id DESC: r comes before o
ListBefore(r, o) ==
    LexLess(o.date, r.date) \/ (r.date = o.date /\ r.id > o.id)

RECURSIVE ListSorted(_)
ListSorted(rows) ==
    IF rows = {} THEN <<>>
    ELSE LET r == CHOOSE r \in rows : \A o \in rows \ {r} : ListBefore(r, o)
         IN <<r>> \o ListSorted(rows \ {r})

\* SELECT ... WHERE date BETWEEN ? AND ? ORDER BY date DESC, id DESC
ListRows(tbl, start_date, end_date) ==
    ListSorted({r \in tbl : Between(r.date, start_date, end_date)})

ListExpenses(start_date, end_date) ==
    /\ last' = [NoResult EXCEPT
                  !.op = "list_expenses", !.start = <<start_date>>,
                  !.end = <<end_date>>, !.status = "rows",
                  !.rows = ListRows(expenses, start_date, end_date)]
    /\ UNCHANGED <<expenses, seq, clock, issued, deleteCalled, statPc, stat>>

----------------------------------------------------------------------------
(* summarize_expenses *)

\* the rows the WHERE clause keeps: "AND category = ?" is appended only when
\* the Python value of category is truthy (neither None nor "")
SummaryMatch(tbl, start_date, end_date, category) ==
    {r \in tbl : /\ Between(r.date, start_date, end_date)
                 /\ ((category # Unset /\ category # <<"">>)
                        => r.category = category[1])}

\* GROUP BY category with SUM(amount), COUNT( * )
SummaryGroups(rows) ==
    {[category |-> c,
      total_amount |-> SumAmount({r \in rows : r.category = c}),
      count |-> Cardinality({r \in rows : r.category = c})]
     : c \in {r.category : r \in rows}}

\* the orders ORDER BY total_amount DESC allows (ties in any order)
RECURSIVE TotalDescOrders(_)
TotalDescOrders(groups) ==
    IF groups = {} THEN {<<>>}
    ELSE UNION {{<<g>> \o rest : rest \in TotalDescOrders(groups \ {g})}
                : g \in {x \in groups :
                           \A y \in groups : y.total_amount <= x.total_amount}}

SummarizeExpenses(start_date, end_date, category) ==
    /\ \E res \in TotalDescOrders(SummaryGroups(
                     SummaryMatch(expenses, start_date, end_date, category))) :
          last' = [NoResult EXCEPT
                     !.op = "summarize_expenses", !.start = <<start_date>>,
                     !.end = <<end_date>>, !.category = category,
                     !.status = "rows", !.rows = res]
    /\ UNCHANGED <<expenses, seq, clock, issued, deleteCalled, statPc, stat>>

----------------------------------------------------------------------------
(* get_statistics: three SELECT statements on one connection, each its own  *)
(* read transaction (no BEGIN is issued for a SELECT)                       *)

\* SELECT COUNT( * ), SUM(amount): SUM is NULL on no rows, "or 0.0" makes it 0
StatTotals(tbl) ==
    [total_expenses |-> Cardinality(tbl),
     total_amount |-> IF tbl = {} THEN 0 ELSE SumAmount(tbl)]

\* SELECT MIN(date), MAX(date): both NULL on no rows
MinDate(tbl) ==
    IF tbl = {} THEN Unset
    ELSE <<CHOOSE d \in {r.date : r \in tbl} :
              \A e \in {r.date : r \in tbl} : LexLeq(d, e)>>

\* variant: the date of the most recently added row
MaxDateLatestId(tbl) ==
    IF tbl = {} THEN Unset
    ELSE <<(CHOOSE r \in tbl : r.id = MaxOf(Ids(tbl))).date>>

MaxDate(tbl) ==
    IF tbl = {} THEN Unset
    ELSE <<CHOOSE d \in {r.date : r \in tbl} :
              \A e \in {r.date : r \in tbl} : LexLeq(e, d)>>

\* SELECT category, COUNT( * ), SUM(amount) GROUP BY category
StatGroups(tbl) ==
    {[category |-> c,
      count |-> Cardinality({r \in tbl : r.category = c}),
      total |-> SumAmount({r \in tbl : r.category = c})]
     : c \in {r.category : r \in tbl}}

\* the orders ORDER BY SUM(amount) DESC allows
RECURSIVE StatOrders(_)
StatOrders(groups) ==
    IF groups = {} THEN {<<>>}
    ELSE UNION {{<<g>> \o rest : rest \in StatOrders(groups \ {g})}
                : g \in {x \in groups : \A y \in groups : y.total <= x.total}}

StatRead1 ==
    /\ statPc \in {"idle", "done"}
    /\ stat' = [NoStat EXCEPT
                  !.total_expenses = StatTotals(expenses).total_expenses,
                  !.total_amount = StatTotals(expenses).total_amount]
    /\ statPc' = "dates"
    /\ UNCHANGED <<expenses, seq, last, clock, issued, deleteCalled>>

StatRead2 ==
    /\ statPc = "dates"
    /\ stat' = [stat EXCEPT !.first_expense = MinDate(expenses),
                            !.last_expense = MaxDate(expenses)]
    /\ statPc' = "categories"
    /\ UNCHANGED <<expenses, seq, last, clock, issued, deleteCalled>>

StatRead3 ==
    /\ statPc = "categories"
    /\ \E cats \in StatOrders(StatGroups(expenses)) :
          stat' = [stat EXCEPT !.by_category = cats]
    /\ statPc' = "done"
    /\ UNCHANGED <<expenses, seq, last, clock, issued, deleteCalled>>

----------------------------------------------------------------------------
(* monthly_report: strings are sequences of character codes, '0' is 48 and  *)
(* '-' is 45                                                                *)

\* int(s) of a string of decimal digits
RECURSIVE ParseInt(_)
ParseInt(s) ==
    IF s = <<>> THEN 0
    ELSE 10 * ParseInt(SubSeq(s, 1, Len(s) - 1)) + (s[Len(s)] - 48)

\* s.zfill(width)
RECURSIVE ZFill(_, _)
ZFill(s, width) == IF Len(s) >= width THEN s ELSE ZFill(<<48>> \o s, width)

\* str(n) of a natural number
RECURSIVE IntToStr(_)
IntToStr(n) ==
    IF n < 10 THEN <<48 + n>> ELSE IntToStr(n \div 10) \o <<48 + (n % 10)>>

\* datetime: the proleptic Gregorian calendar, years 1..9999
IsLeap(y) == y % 4 = 0 /\ (y % 100 # 0 \/ y % 400 = 0)

DaysInMonthTable == <<31, 28, 31, 30, 31, 30, 31, 31, 30, 31, 30, 31>>

DaysBeforeMonthTable == <<0, 31, 59, 90, 120, 151, 181, 212, 243, 273, 304, 334>>

DaysBeforeYear(y) ==
    (y - 1) * 365 + (y - 1) \div 4 - (y - 1) \div 100 + (y - 1) \div 400

DaysBeforeMonth(y, m) ==
    DaysBeforeMonthTable[m] + (IF m > 2 /\ IsLeap(y) THEN 1 ELSE 0)

\* datetime(y, m, d).toordinal()
Ymd2Ord(y, m, d) == DaysBeforeYear(y) + DaysBeforeMonth(y, m) + d

\* date.fromordinal(n): 400-, 100-, 4- and 1-year cycles
Ord2Ymd(ordinal) ==
    LET n0 == ordinal - 1
        n400 == n0 \div 146097
        r400 == n0 % 146097
        n100 == r400 \div 36524
        r100 == r400 % 36524
        n4 == r100 \div 1461
        r4 == r100 % 1461
        n1 == r4 \div 365
        n == r4 % 365
        y == n400 * 400 + 1 + n100 * 100 + n4 * 4 + n1
        leapyear == n1 = 3 /\ (n4 # 24 \/ n100 = 3)
        m0 == (n + 50) \div 32
        p0 == DaysBeforeMonthTable[m0] + (IF m0 > 2 /\ leapyear THEN 1 ELSE 0)
        m == IF p0 > n THEN m0 - 1 ELSE m0
        p == IF p0 > n
             THEN p0 - (DaysInMonthTable[m] + (IF m = 2 /\ leapyear THEN 1 ELSE 0))
             ELSE p0
    IN IF n1 = 4 \/ n100 = 4
       THEN [year |-> y - 1, month |-> 12, day |-> 31]
       ELSE [year |-> y, month |-> m, day |-> n - p + 1]

\* variant: a fixed table of month lengths
LastDayNoLeap(y, m) == DaysInMonthTable[m]

\* (datetime(year, month + 1, 1) - timedelta(days=1)).day
LastDay(y, m) == Ord2Ymd(Ymd2Ord(y, m + 1, 1) - 1).day

\* start_date = f"{year}-{month.zfill(2)}-01"
ReportStart(month, year) == year \o <<45>> \o ZFill(month, 2) \o <<45, 48, 49>>

\* end_date: day 31 when int(month) == 12, else the day before the first of
\* the next month
ReportEnd(month, year) ==
    IF ParseInt(month) = 12
    THEN year \o <<45>> \o ZFill(month, 2) \o <<45, 51, 49>>
    ELSE year \o <<45>> \o ZFill(month, 2) \o <<45>>
            \o IntToStr(LastDay(ParseInt(year), ParseInt(month)))

\* datetime(...) raises ValueError for a year outside 1..9999
MonthlyReport(month, year) ==
    /\ last' = IF ParseInt(month) # 12
                  /\ (ParseInt(year) < 1 \/ ParseInt(year) > 9999)
               THEN [NoResult EXCEPT
                       !.op = "monthly_report", !.month = <<month>>,
                       !.year = <<year>>, !.status = "ValueError"]
               ELSE [NoResult EXCEPT
                       !.op = "monthly_report", !.month = <<month>>,
                       !.year = <<year>>, !.status = "text",
                       !.start = <<ReportStart(month, year)>>,
                       !.end = <<ReportEnd(month, year)>>]
    /\ UNCHANGED <<expenses, seq, clock, issued, deleteCalled, statPc, stat>>

----------------------------------------------------------------------------
(* Specifications *)

\* "1", "10", "2"
Endpoints == {<<49>>, <<49, 48>>, <<50>>}
Filters == Opt({""} \cup Categories)

\* the writing operations, optional add arguments at their defaults
NextWrite ==
    \/ Startup
    \/ \E d \in Dates, a \in Amounts, c \in Categories :
          AddExpense(d, a, c, "", "")
    \/ \E id \in 1..(seq + 1) : DeleteExpense(id)
    \/ \E id \in 1..(seq + 1), d \in Opt(Dates), a \in Opt(Amounts),
          c \in Opt(Categories) :
          UpdateExpense(id, d, a, c, Unset, Unset)

Next == NextWrite

Spec == Init /\ [][Next]_vars

\* update_expense with every combination of supplied and unset arguments,
\* on rows added as ("2", amount, "Food", subcategory, note)
NextUpdate ==
    \/ \E a \in Amounts, s \in Subcategories, n \in Notes :
          AddExpense(<<50>>, a, "Food", s, n)
    \/ \E id \in 2..(seq + 1), d \in Opt({<<49, 48>>}), a \in Opt(Amounts),
          c \in Opt({"test"}), s \in Opt(Subcategories), n \in Opt(Notes) :
          UpdateExpense(id, d, a, c, s, n)

SpecUpdate == Init /\ [][NextUpdate]_vars

\* the two range queries over stores built by add_expense
NextQuery ==
    \/ \E d \in Dates, a \in Amounts, c \in Categories :
          AddExpense(d, a, c, "", "")
    \/ \E s \in Endpoints, e \in Endpoints : ListExpenses(s, e)
    \/ \E s \in Endpoints, e \in Endpoints, c \in Filters :
          SummarizeExpenses(s, e, c)

SpecQuery == Init /\ [][NextQuery]_vars

\* get_statistics with no writer between its reads
NextStats ==
    \/ statPc \in {"idle", "done"} /\ NextWrite
    \/ StatRead1
    \/ StatRead2
    \/ StatRead3

SpecStats == Init /\ [][NextStats]_vars

\* get_statistics with writers committing between its reads
NextConc ==
    \/ NextWrite
    \/ StatRead1
    \/ StatRead2
    \/ StatRead3

SpecConc == Init /\ [][NextConc]_vars

\* months "1".."12", and "01".."09" with a leading zero (a longer form
\* such as "012" is left as it is by zfill(2) and is not among the inputs)
Months ==
    {IntToStr(m) : m \in 1..12} \cup {<<48>> \o IntToStr(m) : m \in 1..9}

\* "1900", "2000", "2023", "2024", "2100", "9999", "10000"
Years ==
    {<<49, 57, 48, 48>>, <<50, 48, 48, 48>>, <<50, 48, 50, 51>>,
     <<50, 48, 50, 52>>, <<50, 49, 48, 48>>, <<57, 57, 57, 57>>,
     <<49, 48, 48, 48, 48>>}

NextReport == \E m \in Months, y \in Years : MonthlyReport(m, y)

SpecReport == Init /\ [][NextReport]_vars

----------------------------------------------------------------------------
(* Properties *)

Step(op) == clock' # clock /\ last'.op = op

Supplied(call) ==
    \/ call.date # Unset \/ call.amount # Unset \/ call.category # Unset
    \/ call.subcategory # Unset \/ call.note # Unset

\* C1: init_db on a store that holds expenses leaves the stored rows and
\* their fields unchanged, so a row created by add_expense stays present
\* until delete_expense is called with its id.
C1_InitDbKeepsRows ==
    /\ [][Step("init_db") => expenses' = expenses]_vars
    /\ [](\A id \in issued \ deleteCalled : id \in Ids(expenses))

\* C2: list_expenses(start_date, end_date) returns exactly the stored rows
\* with start_date <= date <= end_date (lexicographic; none when start_date >
\* end_date), each once, with its add_expense id and its stored fields,
\* ordered by date descending and then id descending.
C2_ListExact ==
    last.op = "list_expenses" =>
        LET res == last.rows
            lo == last.start[1]
            hi == last.end[1]
        IN /\ \A r \in expenses :
                (LexLeq(lo, r.date) /\ LexLeq(r.date, hi))
                    <=> (\E i \in 1..Len(res) : res[i] = r)
           /\ \A i \in 1..Len(res) : res[i] \in expenses /\ res[i].id \in issued
           /\ \A i, j \in 1..Len(res) : i < j =>
                /\ res[i].id # res[j].id
                /\ \/ LexLess(res[j].date, res[i].date)
                   \/ (res[j].date = res[i].date /\ res[j].id < res[i].id)
           /\ (LexLess(hi, lo) => res = <<>>)

C2_Witness ==
    /\ last.op = "list_expenses"
    /\ Cardinality(expenses) = 3
    /\ Len(last.rows) = 2
    /\ last.rows[1].date = last.rows[2].date
    /\ last.rows[1].amount # last.rows[2].amount

\* C3: update_expense on an existing row with at least one field supplied
\* sets exactly the supplied fields (falsy values such as amount 0 or "" are
\* supplied) and leaves the unsupplied fields, the id and every other row
\* unchanged.
C3_UpdateExactlySupplied ==
    [][(/\ Step("update_expense")
        /\ Supplied(last')
        /\ last'.id \in Ids(expenses))
       => LET call == last'
              old == CHOOSE r \in expenses : r.id = call.id
              new == [id |-> old.id,
                      date |-> IF call.date = Unset THEN old.date
                               ELSE call.date[1],
                      amount |-> IF call.amount = Unset THEN old.amount
                                 ELSE call.amount[1],
                      category |-> IF call.category = Unset THEN old.category
                                   ELSE call.category[1],
                      subcategory |-> IF call.subcategory = Unset
                                      THEN old.subcategory
                                      ELSE call.subcategory[1],
                      note |-> IF call.note = Unset THEN old.note
                               ELSE call.note[1]]
          IN expenses' = (expenses \ {old}) \cup {new}]_vars

C3_Witness ==
    /\ last.op = "update_expense"
    /\ last.status = "success"
    /\ last.amount = <<0>>
    /\ last.subcategory = <<"">>
    /\ last.note = Unset
    /\ Cardinality(expenses) = 2
    /\ \E r \in expenses :
          r.id = last.id /\ r.amount = 0 /\ r.subcategory = "" /\ r.note = "n"

\* C4: delete_expense(id) succeeds iff a row with that id exists; on success
\* exactly that row is removed, otherwise it reports not-found and the store
\* is unchanged; so for an id returned by add_expense the first
\* delete_expense succeeds and every later one reports not-found.
C4_DeleteOnce ==
    [][Step("delete_expense")
       => /\ last'.status = "success" <=> last'.id \in Ids(expenses)
          /\ expenses' = {r \in expenses : r.id # last'.id}
          /\ last'.status # "success" => last'.message = "not found"
          /\ last'.id \in issued
                => (last'.status = "success" <=> last'.id \notin deleteCalled)
      ]_vars

\* C5: update_expense with every optional field unset returns the error
\* "No fields to update" and leaves the store unchanged, whether or not the
\* id exists; with a field supplied and no row of that id it returns a
\* not-found error and leaves the store unchanged.
C5_UpdateErrors ==
    [][Step("update_expense")
       => /\ ~Supplied(last')
                => /\ last'.status = "error"
                   /\ last'.message = "No fields to update"
                   /\ expenses' = expenses
          /\ (Supplied(last') /\ last'.id \notin Ids(expenses))
                => /\ last'.status = "error"
                   /\ last'.message = "not found"
                   /\ expenses' = expenses]_vars

C5_Witness ==
    /\ last.op = "update_expense"
    /\ last.message = "not found"
    /\ Supplied(last)
    /\ expenses # {}
    /\ last.id \notin Ids(expenses)

\* C6: summarize_expenses returns one record per category with a row in the
\* inclusive range, with the sum and the count of those rows, by total
\* descending; with a category filter, whatever string it is, only rows of
\* that category are counted.
C6_SummaryFiltered ==
    last.op = "summarize_expenses" =>
        LET res == last.rows
            lo == last.start[1]
            hi == last.end[1]
            hit == {r \in expenses :
                      /\ LexLeq(lo, r.date) /\ LexLeq(r.date, hi)
                      /\ (last.category # Unset
                            => r.category = last.category[1])}
        IN /\ {res[i].category : i \in 1..Len(res)} = {r.category : r \in hit}
           /\ \A i \in 1..Len(res) :
                /\ res[i].total_amount =
                      SumAmount({r \in hit : r.category = res[i].category})
                /\ res[i].count =
                      Cardinality({r \in hit : r.category = res[i].category})
           /\ \A i, j \in 1..Len(res) : i < j =>
                /\ res[i].category # res[j].category
                /\ res[i].total_amount >= res[j].total_amount
           /\ last.category # Unset
                => /\ Len(res) <= 1
                   /\ \A i \in 1..Len(res) : res[i].category = last.category[1]

\* C7: every id add_expense returns differs from the id of every stored row
\* and from every id returned before, deleted or not, and no operation
\* changes the id of an existing row.
C7_FreshIds ==
    [][/\ Step("add_expense")
          => /\ last'.id \notin Ids(expenses)
             /\ last'.id \notin issued
             /\ Ids(expenses') = Ids(expenses) \cup {last'.id}
       /\ ~Step("add_expense") => Ids(expenses') \subseteq Ids(expenses)]_vars

C7_Witness ==
    /\ last.op = "add_expense"
    /\ \E old \in issued \cap deleteCalled :
          old \notin Ids(expenses) /\ old + 1 = last.id

\* C8: with no writer between its reads, get_statistics returns the number
\* of rows, the sum of their amounts (0 when none), the smallest and largest
\* stored date (null when none) and one entry per stored category with its
\* count and sum, by sum descending.
C8_StatisticsExact ==
    [][(statPc = "categories" /\ statPc' = "done")
       => LET cats == stat'.by_category
              dates == {r.date : r \in expenses}
          IN /\ stat'.total_expenses = Cardinality(expenses)
             /\ stat'.total_amount = SumAmount(expenses)
             /\ expenses = {}
                  => /\ stat'.first_expense = Unset
                     /\ stat'.last_expense = Unset
                     /\ stat'.total_amount = 0
                     /\ cats = <<>>
             /\ expenses # {}
                  => /\ stat'.first_expense \in {<<d>> : d \in dates}
                     /\ stat'.last_expense \in {<<d>> : d \in dates}
                     /\ \A d \in dates :
                          /\ LexLeq(stat'.first_expense[1], d)
                          /\ LexLeq(d, stat'.last_expense[1])
             /\ {cats[i].category : i \in 1..Len(cats)}
                   = {r.category : r \in expenses}
             /\ \A i \in 1..Len(cats) :
                  /\ cats[i].count = Cardinality(
                        {r \in expenses : r.category = cats[i].category})
                  /\ cats[i].total = SumAmount(
                        {r \in expenses : r.category = cats[i].category})
             /\ \A i, j \in 1..Len(cats) : i < j =>
                  /\ cats[i].category # cats[j].category
                  /\ cats[i].total >= cats[j].total]_vars

C8_Witness ==
    /\ statPc = "done"
    /\ stat.total_expenses = 3
    /\ Len(stat.by_category) = 2
    /\ stat.first_expense # stat.last_expense
    /\ stat.total_amount > 0

\* C9: for a year and a month 1..12 (with or without a leading zero) the
\* range in the text of monthly_report runs from <year>-<MM>-01 to
\* <year>-<MM>-<DD>, DD the last calendar day of that month: 31, 30, or 28/29
\* for February by the leap-year rule.
C9_MonthRange ==
    (last.op = "monthly_report" /\ last.status = "text") =>
        LET y == ParseInt(last.year[1])
            m == ParseInt(last.month[1])
            mm == <<48 + (m \div 10), 48 + (m % 10)>>
            dd == IF m \in {4, 6, 9, 11} THEN <<51, 48>>
                  ELSE IF m # 2 THEN <<51, 49>>
                  ELSE IF y % 400 = 0 \/ (y % 4 = 0 /\ y % 100 # 0)
                       THEN <<50, 57>>
                       ELSE <<50, 56>>
        IN /\ last.start[1] = last.year[1] \o <<45>> \o mm \o <<45, 48, 49>>
           /\ last.end[1] = last.year[1] \o <<45>> \o mm \o <<45>> \o dd

\* "2" of "2024": 2024-02-29
C9_Witness ==
    /\ last.op = "monthly_report"
    /\ last.month = <<(<<50>>)>>
    /\ last.year = <<(<<50, 48, 50, 52>>)>>
    /\ last.end = <<(<<50, 48, 50, 52, 45, 48, 50, 45, 50, 57>>)>>

RECURSIVE SumField(_, _)
SumField(cats, f) ==
    IF cats = <<>> THEN 0 ELSE Head(cats)[f] + SumField(Tail(cats), f)

\* C10: every result of get_statistics is internally consistent, also when
\* writes of other callers commit between its reads: total_expenses is the
\* sum of the category counts, total_amount the sum of the category totals,
\* and total_expenses is 0 exactly when both date bounds are null.
C10_StatisticsConsistent ==
    statPc = "done" =>
        /\ stat.total_expenses = SumField(stat.by_category, "count")
        /\ stat.total_amount = SumField(stat.by_category, "total")
        /\ stat.total_expenses = 0
              <=> (stat.first_expense = Unset /\ stat.last_expense = Unset)

====
